---- MODULE Spec2Model ----
(***************************************************************************)
(* Book-to-video generation pipeline of booktok-backend.                   *)
(*                                                                         *)
(* One run of generateVideoFromSummary (bookVideoPipeline.js) with its     *)
(* collaborators: the LLM client (llmClient.js), image synthesis           *)
(* (imageGenerationService.js), voice synthesis and the FFmpeg compiler    *)
(* (videoCompilerService.js).  Collaborator outcomes are chosen            *)
(* nondeterministically at the step at which the awaited call settles.     *)
(*                                                                         *)
(* Strings are kept run-length encoded: a text is a sequence of chunks     *)
(* [c, n] (character c repeated n times) in which adjacent chunks carry    *)
(* different characters, so two texts are equal exactly when their         *)
(* encodings are equal.  Error messages are sequences of words.            *)
(* Durations are exact fractions [num, den] in lowest terms.               *)
(***************************************************************************)
EXTENDS Integers, Sequences, FiniteSets, TLC

VARIABLES
  request,          \* the call made by the caller: entry point and raw params
  config,           \* which API keys the process environment holds
  ffmpegAvailable,  \* what checkFFmpeg resolved to
  pending,          \* the stages whose awaited call has not settled
  stageLog,         \* the stages in the order in which they were begun
  narration,        \* narrationScript
  imaging,          \* generateImagesFromSummary: numImages, scenes and their state
  imageUrls,        \* imageUrls
  audio,            \* audioResult
  compile,          \* what the compiler call did
  calls,            \* number of calls made to each collaborator
  failedStage,      \* the stage that threw
  result,           \* the object the run returned
  escaped,          \* an exception left generateVideoFromSummary
  book,             \* the book record of the controller (bookController.js)
  runs,             \* the calls of generateVideoForBook, in the order started
  aiServices,       \* the module cache of getAIServices
  cloudinary,       \* cloudinaryService.isConfigured()
  files,            \* the runs whose local video file exists
  http,             \* the last response sent by the controller's handlers
  textCall,         \* one call of generateText, step by step
  imageCall,        \* one call of generateImagesFromSummary, step by step
  estimates         \* the last two calls of calculateSpeakingDuration

pipeVars == <<request, config, ffmpegAvailable, pending, stageLog, narration, imaging,
              imageUrls, audio, compile, calls, failedStage, result, escaped>>
ctlVars == <<book, runs, aiServices, cloudinary, files, http>>
llmVars == <<textCall>>
imgVars == <<imageCall>>
durVars == <<estimates>>

vars == <<request, config, ffmpegAvailable, pending, stageLog, narration, imaging,
          imageUrls, audio, compile, calls, failedStage, result, escaped,
          book, runs, aiServices, cloudinary, files, http, textCall, imageCall, estimates>>

----------------------------------------------------------------------------
(* Bounds of the model *)

\* summaries have lengths ShortSummaryMax - MaxOver + 1 .. ShortSummaryMax + MaxOver
MaxOver == 1
\* callers of the direct entry point ask for 1 .. MaxNumImages images
MaxNumImages == 2
\* the LLM answers the scene prompt with a JSON array of 0 .. MaxLLMScenes entries
MaxLLMScenes == 5
\* narrations have 1 .. MaxWords words
MaxWords == 31
\* callers of the compiler pass an audioDuration of 1 .. MaxAudioSeconds seconds
MaxAudioSeconds == 2

----------------------------------------------------------------------------
(* Optional values: None is an absent / undefined value *)

None == <<>>
Some(v) == <<v>>
Get(o) == o[1]

Max(a, b) == IF a >= b THEN a ELSE b
Min(a, b) == IF a <= b THEN a ELSE b

RECURSIVE GCD(_, _)
GCD(a, b) == IF b = 0 THEN a ELSE GCD(b, a % b)

\* the fraction a / b in lowest terms (b > 0)
Frac(a, b) == LET g == GCD(a, b) IN [num |-> a \div g, den |-> b \div g]
\* k * r for an integer k and a fraction r
Times(k, r) == Frac(k * r.num, r.den)

----------------------------------------------------------------------------
(* Texts *)

Chunk(c, n) == [c |-> c, n |-> n]
Str(c, n) == IF n = 0 THEN <<>> ELSE <<Chunk(c, n)>>

Concat(s, t) ==
  IF s = <<>> THEN t
  ELSE IF t = <<>> THEN s
  ELSE IF s[Len(s)].c = t[1].c
       THEN SubSeq(s, 1, Len(s) - 1)
              \o <<Chunk(t[1].c, s[Len(s)].n + t[1].n)>> \o Tail(t)
       ELSE s \o t

RECURSIVE StrLen(_)
StrLen(s) == IF s = <<>> THEN 0 ELSE s[1].n + StrLen(Tail(s))

\* s.substring(0, k)
RECURSIVE Substring0(_, _)
Substring0(s, k) ==
  IF s = <<>> \/ k <= 0 THEN <<>>
  ELSE IF s[1].n >= k THEN <<Chunk(s[1].c, k)>>
  ELSE <<s[1]>> \o Substring0(Tail(s), k - s[1].n)

IsSpace(c) == c = " "

RECURSIVE TrimStart(_)
TrimStart(s) == IF s # <<>> /\ IsSpace(s[1].c) THEN TrimStart(Tail(s)) ELSE s

RECURSIVE TrimEnd(_)
TrimEnd(s) ==
  IF s # <<>> /\ IsSpace(s[Len(s)].c) THEN TrimEnd(SubSeq(s, 1, Len(s) - 1)) ELSE s

\* s.trim()
Trim(s) == TrimEnd(TrimStart(s))

\* s.split(/\s+/).length : one more than the number of whitespace runs
SplitLength(s) == Cardinality({i \in 1..Len(s) : IsSpace(s[i].c)}) + 1

\* is the word sequence w a contiguous part of the message msg
ContainsWords(msg, w) ==
  \E i \in 1..(Len(msg) - Len(w) + 1) : SubSeq(msg, i, i + Len(w) - 1) = w

----------------------------------------------------------------------------
(* Program constants *)

ShortSummaryMax == 300
FallbackSummaryChars == 250
DefaultNumImages == 4
QuickNumImages == 3
PremiumNumImages == 6
PlainDefaultImageSeconds == 5
EffectsDefaultImageSeconds == 3
FallbackSceneCount == 5

DefaultTitle == <<Chunk("a", 4), Chunk(" ", 1), Chunk("a", 7)>>   \* 'Book Preview'

FFmpegMissingMsg ==
  <<"FFmpeg", "is", "not", "installed", "or", "not", "available", "in", "PATH.",
    "Please", "install", "FFmpeg", "to", "generate", "videos.">>
DefaultFailureMsg == <<"Failed", "to", "generate", "video">>
VoiceKeyMissingMsg ==
  <<"ElevenLabs", "API", "key", "not", "configured.", "Set",
    "ELEVENLABS_API_KEY", "in", ".env", "file.">>
NoImagesPlainMsg == <<"No", "images", "were", "downloaded", "successfully">>
NoImagesEffectsMsg == <<"No", "images", "downloaded">>
FFmpegExitPlainMsg == <<"FFmpeg", "exited", "with", "code", "1">>
FFmpegExitEffectsMsg == <<"FFmpeg", "failed:", "stderr-tail">>
SpawnErrorMsg == <<"spawn", "ffmpeg", "ENOENT">>
FFmpegSpawnPlainMsg == <<"FFmpeg", "error:">> \o SpawnErrorMsg

----------------------------------------------------------------------------
(* Inputs and collaborator outcomes *)

\* a summary of n characters: one long word, a space, a one-letter word
SummaryOf(n) == IF n < 3 THEN Str("a", n)
                ELSE <<Chunk("a", n - 2), Chunk(" ", 1), Chunk("a", 1)>>

Summaries ==
  {SummaryOf(n) : n \in (ShortSummaryMax - MaxOver + 1)..(ShortSummaryMax + MaxOver)}

Titles == {None, Some(Str("b", 2))}

\* what callers pass for numImages and useEffects
ParamShapes ==
  {[numImages |-> None, useEffects |-> None],
   [numImages |-> None, useEffects |-> Some(TRUE)]}
    \cup {[numImages |-> Some(n), useEffects |-> None] : n \in 1..MaxNumImages}

RawParams ==
  {[summary |-> s, title |-> t, numImages |-> sh.numImages, useEffects |-> sh.useEffects] :
     s \in Summaries, t \in Titles, sh \in ParamShapes}

\* the HTTP layer passes a scene count to the presets as well
PresetRawParams == {p \in RawParams : p.numImages = Some(MaxNumImages)}

Entries == {"generateVideoFromSummary", "generateQuickVideo", "generatePremiumVideo"}

Configs == [openrouterKey : BOOLEAN, geminiKey : BOOLEAN, elevenKey : BOOLEAN]

\* what a provider reply holds: its text, and what the scene-prompt parser
\* finds in it (-1: no bracketed part, -2: a bracketed part that JSON.parse
\* rejects, m >= 0: a JSON array of m entries)
NoArray == 0 - 1
BadArray == 0 - 2
Reply(text, array) == [text |-> text, array |-> array]
EmptyReply == Reply(<<>>, NoArray)

NarrationReplies ==
  { EmptyReply,
    Reply(Str(" ", 2), NoArray),
    Reply(<<Chunk(" ", 1), Chunk("b", 3), Chunk(" ", 1), Chunk("b", 2), Chunk(" ", 2)>>,
          NoArray) }

SceneReplies ==
  { EmptyReply, Reply(Str("b", 9), NoArray), Reply(Str("b", 9), BadArray) }
    \cup { Reply(Str("b", 9), m) : m \in 0..MaxLLMScenes }

ProviderOutcomes(replies) ==
  {[kind |-> "error", content |-> EmptyReply]}
    \cup {[kind |-> "ok", content |-> r] : r \in replies}

FFmpegOutcomes == {"exit0", "exitNonZero", "spawnError"}
PrimaryImageOutcomes == {"image", "unparsable", "error"}
FallbackImageOutcomes == {"url", "nourl", "error"}

TTSErrors == { <<"Request", "failed", "with", "status", "code", "401">>, <<>> }
AudioWriteError == <<"ENOSPC:", "no", "space", "left", "on", "device">>
ReadError == <<"ENOENT:", "no", "such", "file", "or", "directory">>

Stages == {"preflight", "scripting", "imaging", "voicing", "compiling", "reading"}

Collaborators ==
  {"llmPrimary", "llmSecondary", "imagePrimary", "imageFallback", "tts",
   "compiler", "download", "ffmpeg", "readFile"}

----------------------------------------------------------------------------
(* Entry points and parameters (bookVideoPipeline.js) *)

\* generateQuickVideo / generatePremiumVideo: { ...params, numImages, useEffects }
PresetParams(entry, p) ==
  IF entry = "generateQuickVideo"
  THEN [p EXCEPT !.numImages = Some(QuickNumImages), !.useEffects = Some(FALSE)]
  ELSE IF entry = "generatePremiumVideo"
  THEN [p EXCEPT !.numImages = Some(PremiumNumImages), !.useEffects = Some(TRUE)]
  ELSE p

\* the destructuring of params with its defaults
Params(req) ==
  LET p == PresetParams(req.entry, req.params)
  IN [summary    |-> p.summary,
      title      |-> IF p.title = None THEN DefaultTitle ELSE Get(p.title),
      numImages  |-> IF p.numImages = None THEN DefaultNumImages ELSE Get(p.numImages),
      useEffects |-> IF p.useEffects = None THEN FALSE ELSE Get(p.useEffects)]

\* checkFFmpeg: resolves true only when `ffmpeg -version` closes with code 0
CheckFFmpeg(outcome) == outcome = "exit0"

\* variant: the file read placed after the try block
InTryWithoutReading(stage) == stage \in {"scripting", "imaging", "voicing", "compiling"}

\* the try block of generateVideoFromSummary covers every stage after preflight
InTry(stage) == stage \in {"scripting", "imaging", "voicing", "compiling", "reading"}

\* the catch block of generateVideoFromSummary
CatchResult(msg) ==
  [success |-> FALSE, error |-> IF msg = <<>> THEN DefaultFailureMsg ELSE msg]

\* variant: imaging and voicing begun together once the narration is ready
StagesStartedAfterOverlapping(stage) ==
  CASE stage = "preflight" -> <<"scripting">>
    [] stage = "scripting" -> <<"imaging", "voicing">>
    [] stage = "voicing"   -> <<"compiling">>
    [] stage = "compiling" -> <<"reading">>
    [] OTHER               -> <<>>

\* the stages begun when a stage has completed: the awaits follow one another
StagesStartedAfter(stage) ==
  CASE stage = "preflight" -> <<"scripting">>
    [] stage = "scripting" -> <<"imaging">>
    [] stage = "imaging"   -> <<"voicing">>
    [] stage = "voicing"   -> <<"compiling">>
    [] stage = "compiling" -> <<"reading">>
    [] OTHER               -> <<>>

Range(s) == {s[i] : i \in 1..Len(s)}

----------------------------------------------------------------------------
(* LLM client (llmClient.js) *)

\* generateText: primary provider when configured, then the secondary
GenerateText(cfg, p, s) ==
  LET primaryReply == IF cfg.openrouterKey /\ p.kind = "ok" THEN p.content ELSE EmptyReply
      fromPrimary == primaryReply.text # <<>>
      secondaryCalled == ~fromPrimary /\ cfg.geminiKey
  IN [reply |-> IF fromPrimary THEN primaryReply
                ELSE IF secondaryCalled /\ s.kind = "ok" THEN s.content
                ELSE EmptyReply,
      primaryCalls |-> IF cfg.openrouterKey THEN 1 ELSE 0,
      secondaryCalls |-> IF secondaryCalled THEN 1 ELSE 0]

----------------------------------------------------------------------------
(* Scripting and voicing (bookVideoPipeline.js) *)

DotSpace == <<Chunk(".", 1), Chunk(" ", 1)>>

\* variant: the threshold compared with < instead of <=
UsesSummaryDirectlyStrict(summary) == StrLen(summary) < ShortSummaryMax

UsesSummaryDirectly(summary) == StrLen(summary) <= ShortSummaryMax

DirectNarration(title, summary) == Concat(Concat(title, DotSpace), summary)

FallbackNarration(title, summary) ==
  Concat(Concat(Concat(title, DotSpace), Substring0(summary, FallbackSummaryChars)),
         Str(".", 3))

\* variant: the reply is used as it came, without trim()
NarrationFromReplyUntrimmed(title, summary, reply) ==
  IF reply.text # <<>> THEN reply.text ELSE FallbackNarration(title, summary)

\* narration.trim() || fallback
NarrationFromReply(title, summary, reply) ==
  IF Trim(reply.text) # <<>> THEN Trim(reply.text) ELSE FallbackNarration(title, summary)

\* Math.ceil(wordCount / 2.5)
CalculateSpeakingDuration(text) == (2 * SplitLength(text) + 4) \div 5

----------------------------------------------------------------------------
(* Image synthesis (imageGenerationService.js) *)

\* generateImagesFromSummary(summary, aesthetic) declares no third parameter
\* and sets numImages itself
ServiceNumImages(requested) == 4

\* generateScenePrompts: scenes.slice(0, numScenes) of the parsed array, or
\* generateFallbackScenes when nothing parses
SceneCount(reply, numScenes) ==
  IF reply.array >= 0 THEN Min(reply.array, numScenes)
  ELSE Min(FallbackSceneCount, numScenes)

\* generateSingleImage with generateImageFallback
GenerateSingleImage(po, fo) ==
  [image |-> po = "image" \/ (po = "error" /\ fo = "url"),
   fallbackCalled |-> po = "error"]

ImageRef(i, kind) == [scene |-> i, kind |-> kind]

\* generatePlaceholderImages(count)
GeneratePlaceholderImages(count) == [i \in 1..count |-> ImageRef(i, "placeholder")]

\* images.filter(img => img !== null), in scene order
SurvivingImages(scenes) ==
  LET idx == SelectSeq([i \in 1..Len(scenes) |-> i], LAMBDA i : scenes[i] = "image")
  IN [k \in 1..Len(idx) |-> ImageRef(idx[k], "generated")]

----------------------------------------------------------------------------
(* Media compiler (videoCompilerService.js) *)

\* variant: the fixed default used although an audio duration is given
ImageDurationFixed(audioDuration, imageCount, mode) ==
  Frac(IF mode = "effects" THEN EffectsDefaultImageSeconds
       ELSE PlainDefaultImageSeconds, 1)

\* the per-image duration; a null audioDuration is 0 here
ImageDuration(audioDuration, imageCount, mode) ==
  IF audioDuration # 0 THEN Frac(audioDuration, imageCount)
  ELSE Frac(IF mode = "effects" THEN EffectsDefaultImageSeconds
            ELSE PlainDefaultImageSeconds, 1)

\* variant: the failed downloads are not filtered out
DownloadAllImagesKeepingFailed(urls, downloaded) == [j \in 1..Len(urls) |-> j]

\* downloadAllImages: the positions that downloaded, in the order of the urls
DownloadAllImages(urls, downloaded) ==
  SelectSeq([j \in 1..Len(urls) |-> j], LAMBDA j : j \in downloaded)

\* one call of compileVideo (mode "plain") or compileVideoWithEffects
\* (mode "effects") up to the point where its promise settles
CompileRun(mode, urls, hasAudio, audioDuration, downloaded, audioWriteOk, ff) ==
  LET localImages == DownloadAllImages(urls, downloaded)
      n == Len(localImages)
      base == [mode |-> mode, imagesIn |-> Len(urls), hasAudio |-> hasAudio,
               audioDuration |-> audioDuration,
               downloaded |-> downloaded \cap (1..Len(urls)),
               localImages |-> localImages, imageDuration |-> None,
               spawned |-> FALSE, exit |-> "none", outputFile |-> "absent",
               sessionDirRemoved |-> TRUE,
               ok |-> FALSE, error |-> <<>>, duration |-> None]
  IN IF n = 0
     THEN [base EXCEPT !.error = IF mode = "effects" THEN NoImagesEffectsMsg
                                 ELSE NoImagesPlainMsg]
     ELSE IF hasAudio /\ ~audioWriteOk
     THEN [base EXCEPT !.error = AudioWriteError]
     ELSE LET d == ImageDuration(audioDuration, n, mode)
              run == [base EXCEPT !.imageDuration = Some(d), !.spawned = TRUE]
          IN CASE ff = "exit0" ->
                    [run EXCEPT !.ok = TRUE, !.duration = Some(Times(n, d)),
                                !.exit = "zero", !.outputFile = "written"]
               [] ff = "exitNonZero" ->
                    \* what FFmpeg left at the output path is not known
                    [run EXCEPT !.error = IF mode = "effects" THEN FFmpegExitEffectsMsg
                                          ELSE FFmpegExitPlainMsg,
                                !.exit = "nonZero", !.outputFile = "unknown"]
               [] OTHER ->
                    IF mode = "effects"
                    THEN [run EXCEPT !.error = SpawnErrorMsg, !.sessionDirRemoved = FALSE]
                    ELSE [run EXCEPT !.error = FFmpegSpawnPlainMsg]

----------------------------------------------------------------------------
(* The run of generateVideoFromSummary *)

Bump(f, k, n) == [f EXCEPT ![k] = @ + n]

PipelineInit ==
  /\ request = None
  /\ config \in Configs
  /\ pending = {}
  /\ stageLog = <<>>
  /\ narration = None
  /\ imaging = None
  /\ imageUrls = None
  /\ audio = None
  /\ compile = None
  /\ calls = [c \in Collaborators |-> 0]
  /\ ffmpegAvailable = None
  /\ failedStage = None
  /\ result = None
  /\ escaped = FALSE

\* no book, no background run, nothing imported
ControllerInit ==
  /\ book = None
  /\ runs = <<>>
  /\ aiServices = None
  /\ cloudinary \in BOOLEAN
  /\ files = {}
  /\ http = None

Init ==
  /\ PipelineInit
  /\ ControllerInit
  /\ ~cloudinary
  /\ textCall = None
  /\ imageCall = None
  /\ estimates = <<>>

Done == request # None /\ pending = {}

\* a stage completed: the code runs on to its next await
Advance(stage) ==
  /\ pending' = (pending \ {stage}) \cup Range(StagesStartedAfter(stage))
  /\ stageLog' = stageLog \o StagesStartedAfter(stage)
  /\ UNCHANGED <<failedStage, result, escaped>>

\* variant: the failure is recorded but the run goes on to the next stage
FailAndContinue(stage, msg) ==
  /\ pending' = (pending \ {stage}) \cup Range(StagesStartedAfter(stage))
  /\ stageLog' = stageLog \o StagesStartedAfter(stage)
  /\ failedStage' = Some(stage)
  /\ result' = Some(CatchResult(msg))
  /\ escaped' = escaped

\* a stage threw: inside the try block the catch builds the result
Fail(stage, msg) ==
  /\ pending' = {}
  /\ stageLog' = stageLog
  /\ failedStage' = Some(stage)
  /\ IF InTry(stage)
     THEN result' = Some(CatchResult(msg)) /\ escaped' = escaped
     ELSE result' = result /\ escaped' = TRUE

\* a caller invokes one of the three entry points; checkFFmpeg is awaited
Invoke(entry, p) ==
  /\ request = None
  /\ request' = Some([entry |-> entry, params |-> p])
  /\ pending' = {"preflight"}
  /\ stageLog' = <<"preflight">>
  /\ UNCHANGED <<config, ffmpegAvailable, narration, imaging, imageUrls, audio,
                 compile, calls, failedStage, result, escaped>>
  /\ UNCHANGED <<ctlVars, llmVars, imgVars, durVars>>

\* variant: the early return on an unavailable FFmpeg is missing
CheckFFmpegSettlesNoReturn(outcome) ==
  /\ "preflight" \in pending
  /\ ffmpegAvailable' = Some(CheckFFmpeg(outcome))
  /\ Advance("preflight")
  /\ UNCHANGED <<request, config, narration, imaging, imageUrls, audio, compile, calls>>
  /\ UNCHANGED <<ctlVars, llmVars, imgVars, durVars>>

\* checkFFmpeg settles
CheckFFmpegSettles(outcome) ==
  /\ "preflight" \in pending
  /\ ffmpegAvailable' = Some(CheckFFmpeg(outcome))
  /\ IF CheckFFmpeg(outcome)
     THEN Advance("preflight")
     ELSE /\ pending' = {}
          /\ stageLog' = stageLog
          /\ result' = Some([success |-> FALSE, error |-> FFmpegMissingMsg])
          /\ UNCHANGED <<failedStage, escaped>>
  /\ UNCHANGED <<request, config, narration, imaging, imageUrls, audio, compile, calls>>
  /\ UNCHANGED <<ctlVars, llmVars, imgVars, durVars>>

\* prepareNarrationScript settles
ScriptingSettles(p, s) ==
  /\ "scripting" \in pending
  /\ LET prm == Params(Get(request))
     IN IF UsesSummaryDirectly(prm.summary)
        THEN /\ narration' = Some(DirectNarration(prm.title, prm.summary))
             /\ calls' = calls
        ELSE LET g == GenerateText(config, p, s)
             IN /\ narration' = Some(NarrationFromReply(prm.title, prm.summary, g.reply))
                /\ calls' = Bump(Bump(calls, "llmPrimary", g.primaryCalls),
                                 "llmSecondary", g.secondaryCalls)
  /\ Advance("scripting")
  /\ UNCHANGED <<request, config, ffmpegAvailable, imaging, imageUrls, audio, compile>>
  /\ UNCHANGED <<ctlVars, llmVars, imgVars, durVars>>

\* generateImagesFromSummary up to the issue of the per-scene requests:
\* placeholders without a key, else generateScenePrompts settles
ScenePromptsSettle(p, s) ==
  /\ "imaging" \in pending
  /\ imaging = None
  /\ LET prm == Params(Get(request))
         numImages == ServiceNumImages(prm.numImages)
     IN IF ~config.openrouterKey
        THEN /\ imaging' = Some([numImages |-> numImages, scenesAsked |-> 0,
                                 scenes |-> <<>>])
             /\ imageUrls' = Some(GeneratePlaceholderImages(numImages))
             /\ calls' = calls
             /\ Advance("imaging")
        ELSE LET g == GenerateText(config, p, s)
                 n == SceneCount(g.reply, numImages)
                 c == Bump(Bump(Bump(calls, "llmPrimary", g.primaryCalls),
                                "llmSecondary", g.secondaryCalls),
                           "imagePrimary", n)
             IN /\ imaging' = Some([numImages |-> numImages, scenesAsked |-> numImages,
                                    scenes |-> [i \in 1..n |-> "pending"]])
                /\ calls' = c
                /\ IF n = 0
                   THEN imageUrls' = Some(<<>>) /\ Advance("imaging")
                   ELSE UNCHANGED <<imageUrls, pending, stageLog, failedStage, result, escaped>>
  /\ UNCHANGED <<request, config, ffmpegAvailable, narration, audio, compile>>
  /\ UNCHANGED <<ctlVars, llmVars, imgVars, durVars>>

\* generateSingleImage for scene i settles; the last one resolves Promise.all
SingleImageSettles(i, po, fo) ==
  /\ "imaging" \in pending
  /\ imaging # None
  /\ i \in 1..Len(Get(imaging).scenes)
  /\ Get(imaging).scenes[i] = "pending"
  /\ LET g == GenerateSingleImage(po, fo)
         scenes == [Get(imaging).scenes EXCEPT ![i] = IF g.image THEN "image" ELSE "null"]
     IN /\ imaging' = Some([Get(imaging) EXCEPT !.scenes = scenes])
        /\ calls' = Bump(calls, "imageFallback", IF g.fallbackCalled THEN 1 ELSE 0)
        /\ IF \A j \in 1..Len(scenes) : scenes[j] # "pending"
           THEN imageUrls' = Some(SurvivingImages(scenes)) /\ Advance("imaging")
           ELSE UNCHANGED <<imageUrls, pending, stageLog, failedStage, result, escaped>>
  /\ UNCHANGED <<request, config, ffmpegAvailable, narration, audio, compile>>
  /\ UNCHANGED <<ctlVars, llmVars, imgVars, durVars>>

\* variant: the provider is called without the check of the API key
VoicingSettlesNoKeyCheck(ttsError) ==
  /\ "voicing" \in pending
  /\ narration # None
  /\ calls' = Bump(calls, "tts", 1)
  /\ IF ttsError = None
     THEN /\ audio' = Some([audioBuffer |-> Get(narration),
                            duration |-> CalculateSpeakingDuration(Get(narration))])
          /\ Advance("voicing")
     ELSE /\ Fail("voicing", Get(ttsError))
          /\ audio' = audio
  /\ UNCHANGED <<request, config, ffmpegAvailable, narration, imaging, imageUrls, compile>>
  /\ UNCHANGED <<ctlVars, llmVars, imgVars, durVars>>

\* generateVoiceover settles
VoicingSettles(ttsError) ==
  /\ "voicing" \in pending
  /\ narration # None
  /\ IF ~config.elevenKey
     THEN /\ Fail("voicing", VoiceKeyMissingMsg)
          /\ UNCHANGED <<audio, calls>>
     ELSE /\ calls' = Bump(calls, "tts", 1)
          /\ IF ttsError = None
             THEN /\ audio' = Some([audioBuffer |-> Get(narration),
                                    duration |-> CalculateSpeakingDuration(Get(narration))])
                  /\ Advance("voicing")
             ELSE /\ Fail("voicing", Get(ttsError))
                  /\ audio' = audio
  /\ UNCHANGED <<request, config, ffmpegAvailable, narration, imaging, imageUrls, compile>>
  /\ UNCHANGED <<ctlVars, llmVars, imgVars, durVars>>

\* compileVideo / compileVideoWithEffects settles
CompilingSettles(downloaded, audioWriteOk, ff) ==
  /\ "compiling" \in pending
  /\ imageUrls # None
  /\ downloaded \subseteq 1..Len(Get(imageUrls))
  /\ LET prm == Params(Get(request))
         mode == IF prm.useEffects THEN "effects" ELSE "plain"
         run == CompileRun(mode, Get(imageUrls), audio # None,
                           IF audio = None THEN 0 ELSE Get(audio).duration,
                           downloaded, audioWriteOk, ff)
     IN /\ compile' = Some(run)
        /\ calls' = Bump(Bump(Bump(calls, "compiler", 1),
                              "download", Len(Get(imageUrls))),
                         "ffmpeg", IF run.spawned THEN 1 ELSE 0)
        /\ IF run.ok THEN Advance("compiling") ELSE Fail("compiling", run.error)
  /\ UNCHANGED <<request, config, ffmpegAvailable, narration, imaging, imageUrls, audio>>
  /\ UNCHANGED <<ctlVars, llmVars, imgVars, durVars>>

\* getVideoBuffer settles and the result object is built
ReadingSettles(readOk) ==
  /\ "reading" \in pending
  /\ compile # None
  /\ calls' = Bump(calls, "readFile", 1)
  /\ IF readOk
     THEN /\ pending' = pending \ {"reading"}
          /\ stageLog' = stageLog
          /\ UNCHANGED <<failedStage, escaped>>
          /\ result' = Some([success |-> TRUE,
                             videoPath |-> "output/video_session.mp4",
                             videoBuffer |-> "bytes",
                             duration |-> Get(Get(compile).duration),
                             metadata |-> [title |-> Params(Get(request)).title,
                                           narration |-> Get(narration),
                                           imageCount |-> Len(Get(imageUrls)),
                                           sessionId |-> "session"]])
     ELSE Fail("reading", ReadError)
  /\ UNCHANGED <<request, config, ffmpegAvailable, narration, imaging, imageUrls, audio, compile>>
  /\ UNCHANGED <<ctlVars, llmVars, imgVars, durVars>>

Next ==
  \/ \E p \in RawParams : Invoke("generateVideoFromSummary", p)
  \/ \E e \in Entries, p \in PresetRawParams : Invoke(e, p)
  \/ \E o \in FFmpegOutcomes : CheckFFmpegSettles(o)
  \/ \E p \in ProviderOutcomes(NarrationReplies),
        s \in ProviderOutcomes(NarrationReplies) : ScriptingSettles(p, s)
  \/ \E p \in ProviderOutcomes(SceneReplies),
        s \in ProviderOutcomes(SceneReplies) : ScenePromptsSettle(p, s)
  \/ \E i \in 1..DefaultNumImages, po \in PrimaryImageOutcomes,
        fo \in FallbackImageOutcomes : SingleImageSettles(i, po, fo)
  \/ \E e \in {None} \cup {Some(m) : m \in TTSErrors} : VoicingSettles(e)
  \/ \E d \in SUBSET (1..DefaultNumImages), w \in BOOLEAN, ff \in FFmpegOutcomes :
        CompilingSettles(d, w, ff)
  \/ \E r \in BOOLEAN : ReadingSettles(r)

Spec == Init /\ [][Next]_vars

----------------------------------------------------------------------------
(* Book controller (bookController.js): uploadBookWithVideo, regenerateVideo *)
(* and the background runs of generateVideoForBook on one book record.      *)

\* at most MaxRuns background runs are started
MaxRuns == 2

AllKeys == [openrouterKey |-> TRUE, geminiKey |-> TRUE, elevenKey |-> TRUE]

ServicesUnavailableMsg == <<"AI", "services", "not", "available">>
VideoGenerationFailedMsg == <<"Video", "generation", "failed">>
DbErrorMsg == <<"MongoNetworkError:", "connection", "closed">>

TerminalStatuses == {"completed", "failed"}
RunOver == {"done", "rejected"}

\* what generateVideoFromSummary resolves to, as the controller sees it
OrchestratorResults ==
  {[success |-> TRUE, error |-> <<>>],
   [success |-> FALSE, error |-> FFmpegMissingMsg]}
    \cup {[success |-> CatchResult(m).success, error |-> CatchResult(m).error] :
            m \in {VoiceKeyMissingMsg, <<>>}}

\* result.error || 'Video generation failed'
OrchestratorError(res) ==
  IF res.error = <<>> THEN VideoGenerationFailedMsg ELSE res.error

LocalUrl(r) == [kind |-> "local", run |-> r]
CloudUrl(r) == [kind |-> "cloud", run |-> r]

\* Book.create({... videoStatus: generateVideo ? 'pending' : 'none' ...})
NewBook(hasSummary, generateVideo) ==
  [summary |-> hasSummary,
   videoStatus |-> IF generateVideo THEN "pending" ELSE "none",
   videoUrl |-> None, videoError |-> <<>>, videoGeneratedAt |-> None,
   cloudinaryPublicId |-> None]

\* generateVideoForBook called without await: it runs up to its first await,
\* the write of videoStatus 'generating'
NewRun ==
  [pc |-> "writeGenerating", error |-> <<>>, videoUrl |-> None, publicId |-> None,
   log |-> <<>>, written |-> None]

Respond(handler, code) == http' = Some([handler |-> handler, code |-> code])

InFlight == {r \in 1..Len(runs) : runs[r].pc \notin RunOver}

\* the run moves on
Step(r, pc, events) ==
  runs' = [runs EXCEPT ![r].pc = pc, ![r].log = @ \o events]

\* the run throws: the catch block issues the write of 'failed'
Throw(r, msg, events) ==
  runs' = [runs EXCEPT ![r].pc = "writeFailed", ![r].error = msg, ![r].log = @ \o events]

\* POST /api/books/upload-with-video
UploadBookWithVideo(auth, hasTitle, hasSummary, generateVideo, createOk) ==
  /\ book = None
  /\ IF ~auth THEN Respond("upload", 401) /\ UNCHANGED <<book, runs>>
     ELSE IF ~hasTitle THEN Respond("upload", 400) /\ UNCHANGED <<book, runs>>
     ELSE IF generateVideo /\ ~hasSummary
     THEN Respond("upload", 400) /\ UNCHANGED <<book, runs>>
     ELSE IF ~createOk THEN Respond("upload", 500) /\ UNCHANGED <<book, runs>>
     ELSE /\ book' = Some(NewBook(hasSummary, generateVideo))
          /\ runs' = IF generateVideo /\ hasSummary THEN Append(runs, NewRun) ELSE runs
          /\ Respond("upload", 201)
  /\ UNCHANGED <<aiServices, cloudinary, files>>
  /\ UNCHANGED <<pipeVars, llmVars, imgVars, durVars>>

\* POST /api/books/:id/regenerate-video
RegenerateVideo(auth, owner, writeOk) ==
  /\ Len(runs) < MaxRuns
  /\ IF ~auth THEN Respond("regenerate", 401) /\ UNCHANGED <<book, runs>>
     ELSE IF book = None THEN Respond("regenerate", 404) /\ UNCHANGED <<book, runs>>
     ELSE IF ~owner THEN Respond("regenerate", 403) /\ UNCHANGED <<book, runs>>
     ELSE IF ~Get(book).summary THEN Respond("regenerate", 400) /\ UNCHANGED <<book, runs>>
     ELSE IF ~writeOk THEN Respond("regenerate", 500) /\ UNCHANGED <<book, runs>>
     ELSE /\ book' = Some([Get(book) EXCEPT !.videoStatus = "pending"])
          /\ runs' = Append(runs, NewRun)
          /\ Respond("regenerate", 200)
  /\ UNCHANGED <<aiServices, cloudinary, files>>
  /\ UNCHANGED <<pipeVars, llmVars, imgVars, durVars>>

\* Book.findByIdAndUpdate(bookId, { videoStatus: 'generating' }) settles
GeneratingWriteSettles(r, writeOk) ==
  /\ r \in 1..Len(runs)
  /\ runs[r].pc = "writeGenerating"
  /\ IF writeOk
     THEN /\ book' = Some([Get(book) EXCEPT !.videoStatus = "generating"])
          /\ Step(r, "loadServices", <<"w:generating">>)
     ELSE /\ book' = book
          /\ Throw(r, DbErrorMsg, <<"x:generating">>)
  /\ UNCHANGED <<aiServices, cloudinary, files, http>>
  /\ UNCHANGED <<pipeVars, llmVars, imgVars, durVars>>

\* getAIServices settles; generateVideoFromSummary is called
ServicesLoadSettle(r, importOk) ==
  /\ r \in 1..Len(runs)
  /\ runs[r].pc = "loadServices"
  /\ IF aiServices # None
     THEN /\ aiServices' = aiServices
          /\ Step(r, "orchestrating", <<"invoke">>)
     ELSE IF importOk
     THEN /\ aiServices' = Some("bookVideoPipeline")
          /\ Step(r, "orchestrating", <<"invoke">>)
     ELSE /\ aiServices' = aiServices
          /\ Throw(r, ServicesUnavailableMsg, <<>>)
  /\ UNCHANGED <<book, cloudinary, files, http>>
  /\ UNCHANGED <<pipeVars, llmVars, imgVars, durVars>>

\* generateVideoFromSummary settles
OrchestratorSettles(r, res) ==
  /\ r \in 1..Len(runs)
  /\ runs[r].pc = "orchestrating"
  /\ IF ~res.success
     THEN /\ Throw(r, OrchestratorError(res), <<"settle">>)
          /\ files' = files
     ELSE /\ files' = files \cup {r}
          /\ IF cloudinary
             THEN Step(r, "uploading", <<"settle">>)
             ELSE runs' = [runs EXCEPT ![r].pc = "writeCompleted",
                                       ![r].videoUrl = Some(LocalUrl(r)),
                                       ![r].log = @ \o <<"settle">>]
  /\ UNCHANGED <<book, aiServices, cloudinary, http>>
  /\ UNCHANGED <<pipeVars, llmVars, imgVars, durVars>>

\* variant: the local file is cleaned up after a failed upload too
UploadSettlesCleaningAlways(r, uploadOk) ==
  /\ r \in 1..Len(runs)
  /\ runs[r].pc = "uploading"
  /\ IF uploadOk
     THEN runs' = [runs EXCEPT ![r].pc = "cleaning",
                               ![r].videoUrl = Some(CloudUrl(r)),
                               ![r].publicId = Some("book_id")]
     ELSE runs' = [runs EXCEPT ![r].pc = "cleaning",
                               ![r].videoUrl = Some(LocalUrl(r))]
  /\ UNCHANGED <<book, aiServices, cloudinary, files, http>>
  /\ UNCHANGED <<pipeVars, llmVars, imgVars, durVars>>

\* cloudinaryService.uploadVideo settles (it catches its own errors)
UploadSettles(r, uploadOk) ==
  /\ r \in 1..Len(runs)
  /\ runs[r].pc = "uploading"
  /\ IF uploadOk
     THEN runs' = [runs EXCEPT ![r].pc = "cleaning",
                               ![r].videoUrl = Some(CloudUrl(r)),
                               ![r].publicId = Some("book_id")]
     ELSE runs' = [runs EXCEPT ![r].pc = "writeCompleted",
                               ![r].videoUrl = Some(LocalUrl(r))]
  /\ UNCHANGED <<book, aiServices, cloudinary, files, http>>
  /\ UNCHANGED <<pipeVars, llmVars, imgVars, durVars>>

\* services.cleanupVideo settles (deleteVideo catches its own errors)
CleanupSettles(r, unlinkOk) ==
  /\ r \in 1..Len(runs)
  /\ runs[r].pc = "cleaning"
  /\ files' = IF unlinkOk THEN files \ {r} ELSE files
  /\ Step(r, "writeCompleted", <<>>)
  /\ UNCHANGED <<book, aiServices, cloudinary, http>>
  /\ UNCHANGED <<pipeVars, llmVars, imgVars, durVars>>

\* variant: the update with the video info leaves videoError as it is
CompletedWriteSettlesKeepingError(r, writeOk) ==
  /\ r \in 1..Len(runs)
  /\ runs[r].pc = "writeCompleted"
  /\ IF writeOk
     THEN LET w == [videoUrl |-> runs[r].videoUrl, videoStatus |-> "completed",
                    videoGeneratedAt |-> Some(r), videoError |-> <<>>]
          IN /\ book' = Some([Get(book) EXCEPT
                                !.videoUrl = w.videoUrl,
                                !.videoStatus = w.videoStatus,
                                !.videoGeneratedAt = w.videoGeneratedAt,
                                !.cloudinaryPublicId =
                                   IF runs[r].publicId # None THEN runs[r].publicId ELSE @])
             /\ runs' = [runs EXCEPT ![r].pc = "done", ![r].written = Some(w),
                                     ![r].log = @ \o <<"w:completed">>]
     ELSE /\ book' = book
          /\ Throw(r, DbErrorMsg, <<"x:completed">>)
  /\ UNCHANGED <<aiServices, cloudinary, files, http>>
  /\ UNCHANGED <<pipeVars, llmVars, imgVars, durVars>>

\* the update of the book with the video info settles
CompletedWriteSettles(r, writeOk) ==
  /\ r \in 1..Len(runs)
  /\ runs[r].pc = "writeCompleted"
  /\ IF writeOk
     THEN LET w == [videoUrl |-> runs[r].videoUrl, videoStatus |-> "completed",
                    videoGeneratedAt |-> Some(r), videoError |-> <<>>]
          IN /\ book' = Some([Get(book) EXCEPT
                                !.videoUrl = w.videoUrl,
                                !.videoStatus = w.videoStatus,
                                !.videoGeneratedAt = w.videoGeneratedAt,
                                !.videoError = w.videoError,
                                !.cloudinaryPublicId =
                                   IF runs[r].publicId # None THEN runs[r].publicId ELSE @])
             /\ runs' = [runs EXCEPT ![r].pc = "done", ![r].written = Some(w),
                                     ![r].log = @ \o <<"w:completed">>]
     ELSE /\ book' = book
          /\ Throw(r, DbErrorMsg, <<"x:completed">>)
  /\ UNCHANGED <<aiServices, cloudinary, files, http>>
  /\ UNCHANGED <<pipeVars, llmVars, imgVars, durVars>>

\* the write of 'failed' in the catch block settles; nothing catches its
\* rejection
FailedWriteSettles(r, writeOk) ==
  /\ r \in 1..Len(runs)
  /\ runs[r].pc = "writeFailed"
  /\ IF writeOk
     THEN LET w == [videoStatus |-> "failed", videoError |-> runs[r].error]
          IN /\ book' = Some([Get(book) EXCEPT !.videoStatus = w.videoStatus,
                                               !.videoError = w.videoError])
             /\ runs' = [runs EXCEPT ![r].pc = "done", ![r].written = Some(w),
                                     ![r].log = @ \o <<"w:failed">>]
     ELSE /\ book' = book
          /\ Step(r, "rejected", <<"x:failed">>)
  /\ UNCHANGED <<aiServices, cloudinary, files, http>>
  /\ UNCHANGED <<pipeVars, llmVars, imgVars, durVars>>

CtlInit ==
  /\ PipelineInit
  /\ config = AllKeys
  /\ ControllerInit
  /\ textCall = None
  /\ imageCall = None
  /\ estimates = <<>>

RunNext ==
  \/ \E r \in 1..MaxRuns, ok \in BOOLEAN : GeneratingWriteSettles(r, ok)
  \/ \E r \in 1..MaxRuns, ok \in BOOLEAN : ServicesLoadSettle(r, ok)
  \/ \E r \in 1..MaxRuns, res \in OrchestratorResults : OrchestratorSettles(r, res)
  \/ \E r \in 1..MaxRuns, ok \in BOOLEAN : UploadSettles(r, ok)
  \/ \E r \in 1..MaxRuns, ok \in BOOLEAN : CleanupSettles(r, ok)
  \/ \E r \in 1..MaxRuns, ok \in BOOLEAN : CompletedWriteSettles(r, ok)
  \/ \E r \in 1..MaxRuns, ok \in BOOLEAN : FailedWriteSettles(r, ok)

CtlNext ==
  \/ \E a, t, s, g, c \in BOOLEAN : UploadBookWithVideo(a, t, s, g, c)
  \/ \E a, o, w \in BOOLEAN : RegenerateVideo(a, o, w)
  \/ \E r \in 1..MaxRuns, ok \in BOOLEAN : GeneratingWriteSettles(r, ok)
  \/ \E r \in 1..MaxRuns, ok \in BOOLEAN : ServicesLoadSettle(r, ok)
  \/ \E r \in 1..MaxRuns, res \in OrchestratorResults : OrchestratorSettles(r, res)
  \/ \E r \in 1..MaxRuns, ok \in BOOLEAN : UploadSettles(r, ok)
  \/ \E r \in 1..MaxRuns, ok \in BOOLEAN : CleanupSettles(r, ok)
  \/ \E r \in 1..MaxRuns, ok \in BOOLEAN : CompletedWriteSettles(r, ok)
  \/ \E r \in 1..MaxRuns, ok \in BOOLEAN : FailedWriteSettles(r, ok)

CtlSpec == CtlInit /\ [][CtlNext]_vars

\* every awaited call of a background run settles
CtlFairSpec == CtlSpec /\ WF_vars(RunNext)

----------------------------------------------------------------------------
(* One call of generateText (llmClient.js), request by request *)

TextReplies == NarrationReplies \cup SceneReplies

\* the text a provider outcome delivers; an error delivers none
TextOf(outcome) == IF outcome.kind = "ok" THEN outcome.content.text ELSE <<>>

\* the code after the primary provider's block: the secondary provider when
\* configured, else the empty string
AfterPrimary(call) ==
  IF config.geminiKey
  THEN [call EXCEPT !.pc = "secondary", !.secondaryRequests = @ + 1,
                    !.trace = @ \o <<"secondary">>]
  ELSE [call EXCEPT !.pc = "returned", !.returned = Some(<<>>)]

Providers == {"primary", "secondary"}

\* the timeout a request carries: axios.post(..., {timeout: 25000}) to the
\* primary provider, none on geminiModel.generateContent(prompt)
RequestTimeoutMs(provider) == IF provider = "primary" THEN Some(25000) ELSE None

\* a pending request settles when its provider answers, or, if the provider
\* stays silent, when the request's timeout rejects it
CanSettle(call, provider, outcome) ==
  \/ provider \notin call.silent
  \/ RequestTimeoutMs(provider) # None /\ outcome.kind = "error"

\* generateText(prompt) is called and runs to its first await or return;
\* silent are the providers that will never respond during the call
GenerateTextCalled(silent) ==
  /\ textCall = None
  /\ LET call == [pc |-> "called", silent |-> silent,
                  primaryRequests |-> 0, secondaryRequests |-> 0,
                  primary |-> None, secondary |-> None, trace |-> <<>>,
                  returned |-> None, threw |-> FALSE]
     IN textCall' = Some(IF config.openrouterKey
                         THEN [call EXCEPT !.pc = "primary", !.primaryRequests = 1,
                                           !.trace = <<"primary">>]
                         ELSE AfterPrimary(call))
  /\ UNCHANGED <<pipeVars, ctlVars, imgVars, durVars>>

\* variant: a failed request to the primary provider is sent once more
PrimarySettlesRetrying(p) ==
  /\ textCall # None
  /\ Get(textCall).pc = "primary"
  /\ CanSettle(Get(textCall), "primary", p)
  /\ LET call == [Get(textCall) EXCEPT !.primary = Some(p)]
     IN textCall' = Some(IF TextOf(p) # <<>>
                         THEN [call EXCEPT !.pc = "returned", !.returned = Some(TextOf(p))]
                         ELSE IF p.kind = "error" /\ call.primaryRequests < 2
                         THEN [call EXCEPT !.primaryRequests = @ + 1,
                                           !.trace = @ \o <<"primary">>]
                         ELSE AfterPrimary(call))
  /\ UNCHANGED <<pipeVars, ctlVars, imgVars, durVars>>

\* the request to the primary provider settles
PrimarySettles(p) ==
  /\ textCall # None
  /\ Get(textCall).pc = "primary"
  /\ CanSettle(Get(textCall), "primary", p)
  /\ LET call == [Get(textCall) EXCEPT !.primary = Some(p)]
     IN textCall' = Some(IF TextOf(p) # <<>>
                         THEN [call EXCEPT !.pc = "returned", !.returned = Some(TextOf(p))]
                         ELSE AfterPrimary(call))
  /\ UNCHANGED <<pipeVars, ctlVars, imgVars, durVars>>

\* variant: the call of the secondary provider outside a try block
SecondarySettlesUncaught(s) ==
  /\ textCall # None
  /\ Get(textCall).pc = "secondary"
  /\ CanSettle(Get(textCall), "secondary", s)
  /\ LET call == [Get(textCall) EXCEPT !.secondary = Some(s)]
     IN textCall' = Some(IF s.kind = "ok"
                         THEN [call EXCEPT !.pc = "returned", !.returned = Some(TextOf(s))]
                         ELSE [call EXCEPT !.pc = "returned", !.threw = TRUE])
  /\ UNCHANGED <<pipeVars, ctlVars, imgVars, durVars>>

\* the request to the secondary provider settles
SecondarySettles(s) ==
  /\ textCall # None
  /\ Get(textCall).pc = "secondary"
  /\ CanSettle(Get(textCall), "secondary", s)
  /\ LET call == [Get(textCall) EXCEPT !.secondary = Some(s)]
     IN textCall' = Some([call EXCEPT !.pc = "returned", !.returned = Some(TextOf(s))])
  /\ UNCHANGED <<pipeVars, ctlVars, imgVars, durVars>>

LlmNext ==
  \/ \E silent \in SUBSET Providers : GenerateTextCalled(silent)
  \/ \E p \in ProviderOutcomes(TextReplies) : PrimarySettles(p)
  \/ \E s \in ProviderOutcomes(TextReplies) : SecondarySettles(s)

LlmSpec == Init /\ [][LlmNext]_vars

\* a request that can settle does: the provider's answer arrives or the
\* timer of the request fires
LlmFairSpec ==
  /\ LlmSpec
  /\ WF_vars(\E p \in ProviderOutcomes(TextReplies) : PrimarySettles(p))
  /\ WF_vars(\E s \in ProviderOutcomes(TextReplies) : SecondarySettles(s))

----------------------------------------------------------------------------
(* One call of generateImagesFromSummary (imageGenerationService.js), *)
(* request by request                                                  *)

\* the scene counts callers pass as third argument
RequestedCounts == (1..MaxNumImages) \cup {DefaultNumImages}

\* variant: results collected in the order in which the requests settle
SlotByArrival(call, i) == Len(call.arrival) + 1

\* Promise.all: the result of the request for scene i goes to position i
Slot(call, i) == i

\* images.filter(img => img !== null)
FilterNull(slots) == SelectSeq(slots, LAMBDA v : v.kind # "null")

\* a per-scene request has settled with value v (null or an image)
Resolve(call, i, v) ==
  LET c == [call EXCEPT !.slots[Slot(call, i)] = v,
                        !.stage[i] = "settled",
                        !.arrival = @ \o <<i>>]
  IN IF \A j \in DOMAIN c.stage : c.stage[j] = "settled"
     THEN [c EXCEPT !.pc = "returned", !.returned = Some(FilterNull(c.slots))]
     ELSE c

\* generateImagesFromSummary(summary, aesthetic, requested) is called
GenerateImagesCalled(requested) ==
  /\ imageCall = None
  /\ LET numImages == ServiceNumImages(requested)
         call == [pc |-> "scenePrompts", requested |-> requested,
                  numImages |-> numImages, scenesAsked |-> 0, scenePrompts |-> None,
                  llmRequests |-> 0, slots |-> <<>>, stage |-> <<>>,
                  primary |-> <<>>, primaryRequests |-> <<>>,
                  fallbackRequests |-> <<>>, arrival |-> <<>>, returned |-> None]
     IN imageCall' = Some(IF ~config.openrouterKey
                          THEN [call EXCEPT !.pc = "returned",
                                            !.returned =
                                               Some(GeneratePlaceholderImages(numImages))]
                          ELSE [call EXCEPT !.scenesAsked = numImages])
  /\ UNCHANGED <<pipeVars, ctlVars, llmVars, durVars>>

\* generateScenePrompts settles and the per-scene requests are all issued
ScenePromptsReturn(p, s) ==
  /\ imageCall # None
  /\ Get(imageCall).pc = "scenePrompts"
  /\ LET call == Get(imageCall)
         g == GenerateText(config, p, s)
         n == SceneCount(g.reply, call.scenesAsked)
         c == [call EXCEPT !.scenePrompts = Some(n),
                           !.llmRequests = g.primaryCalls + g.secondaryCalls,
                           !.slots = [i \in 1..n |-> ImageRef(i, "pending")],
                           !.stage = [i \in 1..n |-> "primary"],
                           !.primary = [i \in 1..n |-> "none"],
                           !.primaryRequests = [i \in 1..n |-> 1],
                           !.fallbackRequests = [i \in 1..n |-> 0]]
     IN imageCall' = Some(IF n = 0
                          THEN [c EXCEPT !.pc = "returned", !.returned = Some(<<>>)]
                          ELSE [c EXCEPT !.pc = "images"])
  /\ UNCHANGED <<pipeVars, ctlVars, llmVars, durVars>>

\* the request to the primary image provider for scene i settles
PrimaryImageSettles(i, po) ==
  /\ imageCall # None
  /\ Get(imageCall).pc = "images"
  /\ i \in DOMAIN Get(imageCall).stage
  /\ Get(imageCall).stage[i] = "primary"
  /\ LET call == [Get(imageCall) EXCEPT !.primary[i] = po]
         g == GenerateSingleImage(po, "error")
     IN imageCall' = Some(IF g.fallbackCalled
                          THEN [call EXCEPT !.stage[i] = "fallback",
                                            !.fallbackRequests[i] = @ + 1]
                          ELSE Resolve(call, i, ImageRef(i, IF g.image THEN "generated"
                                                            ELSE "null")))
  /\ UNCHANGED <<pipeVars, ctlVars, llmVars, durVars>>

\* the request to the fallback image provider for scene i settles
FallbackImageSettles(i, fo) ==
  /\ imageCall # None
  /\ Get(imageCall).pc = "images"
  /\ i \in DOMAIN Get(imageCall).stage
  /\ Get(imageCall).stage[i] = "fallback"
  /\ LET g == GenerateSingleImage("error", fo)
     IN imageCall' = Some(Resolve(Get(imageCall), i,
                                  ImageRef(i, IF g.image THEN "generated" ELSE "null")))
  /\ UNCHANGED <<pipeVars, ctlVars, llmVars, durVars>>

ImgNext ==
  \/ \E n \in RequestedCounts : GenerateImagesCalled(n)
  \/ \E p \in ProviderOutcomes(SceneReplies),
        s \in ProviderOutcomes(SceneReplies) : ScenePromptsReturn(p, s)
  \/ \E i \in 1..DefaultNumImages, po \in PrimaryImageOutcomes : PrimaryImageSettles(i, po)
  \/ \E i \in 1..DefaultNumImages, fo \in FallbackImageOutcomes : FallbackImageSettles(i, fo)

ImgSpec == Init /\ [][ImgNext]_vars

----------------------------------------------------------------------------
(* calculateSpeakingDuration (bookVideoPipeline.js) on the narrations the    *)
(* scripting step hands to generateVoiceover                                 *)

\* a text of n one-letter words separated by single spaces
RECURSIVE WordsText(_)
WordsText(n) ==
  IF n <= 1 THEN Str("w", n)
  ELSE Concat(Concat(WordsText(n - 1), Str(" ", 1)), Str("w", 1))

\* narrations `${title}. ${summary}` of 1 .. MaxWords words: the title may
\* begin and the summary may end with whitespace, neither is trimmed
NarrationTexts ==
  {Concat(Concat(Str(" ", lead), WordsText(n)), Str(" ", trail)) :
     n \in 1..MaxWords, lead \in 0..1, trail \in 0..1}

\* generateVoiceover calls calculateSpeakingDuration(text)
CalculateSpeakingDurationCalled(text) ==
  /\ estimates' = (IF estimates = <<>> THEN <<>> ELSE <<estimates[Len(estimates)]>>)
                    \o <<[text |-> text,
                          duration |-> CalculateSpeakingDuration(text)]>>
  /\ UNCHANGED <<pipeVars, ctlVars, llmVars, imgVars>>

DurNext == \E text \in NarrationTexts : CalculateSpeakingDurationCalled(text)

\* the function reads no configuration: one environment is enough
OneConfigInit == Init /\ config = AllKeys

DurSpec == OneConfigInit /\ [][DurNext]_vars

----------------------------------------------------------------------------
(* compileVideo and compileVideoWithEffects (videoCompilerService.js) called *)
(* on their own: compileFunc(imageUrls, audioData, options)                  *)

\* options.audioDuration: absent (null, 0 here) or a number of seconds
AudioDurations == 0..MaxAudioSeconds

\* one call of the compiler with n image urls settles
CompileCalled(mode, n, hasAudio, audioDuration, downloaded, audioWriteOk, ff) ==
  /\ compile = None
  /\ downloaded \subseteq 1..n
  /\ compile' = Some(CompileRun(mode, [i \in 1..n |-> ImageRef(i, "generated")],
                                hasAudio, audioDuration, downloaded, audioWriteOk, ff))
  /\ UNCHANGED <<request, config, ffmpegAvailable, pending, stageLog, narration,
                 imaging, imageUrls, audio, calls, failedStage, result, escaped>>
  /\ UNCHANGED <<ctlVars, llmVars, imgVars, durVars>>

CmpNext ==
  \E mode \in {"plain", "effects"}, n \in 0..DefaultNumImages, hasAudio \in BOOLEAN,
     audioDuration \in AudioDurations, d \in SUBSET (1..DefaultNumImages),
     w \in BOOLEAN, ff \in FFmpegOutcomes :
       CompileCalled(mode, n, hasAudio, audioDuration, d, w, ff)

CmpSpec == OneConfigInit /\ [][CmpNext]_vars

----------------------------------------------------------------------------
(* Properties *)

Succeeded == result # None /\ Get(result).success
Failed == result # None /\ ~Get(result).success
RawSummary == Get(request).params.summary
StageOrder == <<"preflight", "scripting", "imaging", "voicing", "compiling", "reading">>

\* C1: when checkFFmpeg reports FFmpeg unavailable, the run is over at once
\* with success = false and an error containing "not installed", and no call
\* has been made to the LLM client, an image provider, the voice provider or
\* the compiler.
C1_PreflightAbort ==
  ffmpegAvailable = Some(FALSE) =>
    /\ Done
    /\ Failed
    /\ ContainsWords(Get(result).error, <<"not", "installed">>)
    /\ \A c \in Collaborators : calls[c] = 0
    /\ stageLog = <<"preflight">>

C1_Witness == ffmpegAvailable = Some(FALSE) /\ Done

\* C2: whatever the collaborators do, no exception leaves
\* generateVideoFromSummary, and a finished run has returned an object with
\* a boolean success field (and an error text when success is false).
C2_StructuredResult ==
  /\ ~escaped
  /\ Done => /\ result # None
             /\ Get(result).success \in BOOLEAN
             /\ (~Get(result).success => Get(result).error # <<>>)

C2_Witness == Done /\ failedStage = Some("reading") /\ Failed

\* C3: a stage that fails ends the run: no later stage is begun, no stage is
\* run twice, and the result is {success: false, error} with no videoPath,
\* videoBuffer, duration or metadata.
C3_AbortOnFailure ==
  failedStage # None =>
    LET st == Get(failedStage) IN
    /\ Done
    /\ Failed
    /\ DOMAIN Get(result) = {"success", "error"}
    /\ Get(result).error # <<>>
    /\ stageLog[Len(stageLog)] = st
    /\ \A i, j \in 1..Len(stageLog) : i # j => stageLog[i] # stageLog[j]
    /\ calls["tts"] <= 1 /\ calls["compiler"] <= 1 /\ calls["readFile"] <= 1
    /\ (st = "voicing" => calls["compiler"] = 0 /\ compile = None)
    /\ (st \in {"voicing", "compiling"} => calls["readFile"] = 0)

C3_Witness == Done /\ failedStage = Some("compiling") /\ calls["ffmpeg"] = 1

\* C4: the stages are begun in the order preflight, scripting, imaging,
\* voicing, compiling, reading; at most one stage is in progress, it is the
\* one begun last, and a stage is begun only when the stages before it have
\* delivered their full output.
C4_StrictStageOrder ==
  /\ Len(stageLog) <= Len(StageOrder)
  /\ stageLog = SubSeq(StageOrder, 1, Len(stageLog))
  /\ Cardinality(pending) <= 1
  /\ \A st \in pending : st = stageLog[Len(stageLog)]
  /\ ("scripting" \in Range(stageLog) => ffmpegAvailable = Some(TRUE))
  /\ ("imaging" \in Range(stageLog) => narration # None)
  /\ ("voicing" \in Range(stageLog) =>
        /\ imageUrls # None
        /\ \A i \in 1..Len(Get(imaging).scenes) : Get(imaging).scenes[i] # "pending")
  /\ ("compiling" \in Range(stageLog) => audio # None)
  /\ ("reading" \in Range(stageLog) => compile # None /\ Get(compile).ok)

C4_Witness == Done /\ Succeeded /\ stageLog = StageOrder

\* C5: for a summary of at most 300 characters the narration - as produced
\* by scripting, as spoken by the voice step and as reported in the
\* metadata - is the title, ". " and the summary, and scripting has made no
\* LLM call.
C5_ShortSummaryNarration ==
  (request # None /\ narration # None /\ StrLen(RawSummary) <= ShortSummaryMax) =>
    LET title == IF Get(request).params.title = None THEN DefaultTitle
                 ELSE Get(Get(request).params.title)
        expected == title \o <<Chunk(".", 1), Chunk(" ", 1)>> \o RawSummary
    IN /\ Get(narration) = expected
       /\ (imaging = None => calls["llmPrimary"] = 0 /\ calls["llmSecondary"] = 0)
       /\ (audio # None => Get(audio).audioBuffer = expected)
       /\ (Succeeded => Get(result).metadata.narration = expected)

C5_Witness ==
  /\ Succeeded
  /\ StrLen(RawSummary) = ShortSummaryMax
  /\ config.openrouterKey
  /\ Get(request).params.title # None

NullScenes ==
  Cardinality({i \in 1..Len(Get(imaging).scenes) : Get(imaging).scenes[i] = "null"})

\* C6: a successful run has handed at most the requested numImages images
\* to the compiler.
C6_ImageCountWithinRequest ==
  Succeeded => Len(Get(imageUrls)) <= Params(Get(request)).numImages

\* C7: in a successful run the per-image duration is the estimated audio
\* duration divided by the number of images that reached the encoder, and
\* the reported duration (count times per-image duration) is the estimated
\* audio duration.
C7_DurationMatchesAudio ==
  Succeeded =>
    LET n == Len(Get(compile).localImages)
        d == Get(Get(compile).imageDuration)
        a == Get(audio).duration
        total == Get(result).duration
    IN /\ n >= 1
       /\ a >= 1
       /\ d.num * n = a * d.den
       /\ total.num = a * total.den

C7_Witness ==
  /\ Succeeded
  /\ Len(Get(compile).localImages) = 3
  /\ Len(Get(imageUrls)) = 4
  /\ Get(audio).duration = 2

\* C8: generateQuickVideo asks for 3 scene prompts and makes 3 image calls
\* without effects, the standard entry point asks for 4 without effects,
\* generatePremiumVideo asks for 6 with effects.
C8_PresetsFixSceneCount ==
  LET entry == Get(request).entry
      raw == Get(request).params
      preset == entry # "generateVideoFromSummary"
                  \/ (raw.numImages = None /\ raw.useEffects = None)
      count == IF entry = "generateQuickVideo" THEN QuickNumImages
               ELSE IF entry = "generatePremiumVideo" THEN PremiumNumImages
               ELSE DefaultNumImages
      mode == IF entry = "generatePremiumVideo" THEN "effects" ELSE "plain"
  IN (request # None /\ preset) =>
       /\ (imaging # None /\ config.openrouterKey) =>
             /\ Get(imaging).scenesAsked = count
             /\ calls["imagePrimary"] <= count
             /\ (Get(imaging).scenes # <<>> => calls["imagePrimary"] = count)
       /\ (compile # None => Get(compile).mode = mode)

\* C9: when k of the N requested scenes (0 < k < N) yield no image the run
\* still succeeds with imageCount = N - k and a per-image duration of
\* audioDuration / (N - k); images are the cause of a failure only when no
\* scene yields one.
C9_PartialImageFailureTolerated ==
  (Done /\ imaging # None /\ compile # None /\ config.openrouterKey) =>
    LET N == Params(Get(request)).numImages
        k == NullScenes
        run == Get(compile)
    IN (0 < k /\ k < N) =>
         /\ Succeeded =>
               /\ Get(result).metadata.imageCount = N - k
               /\ (Len(run.localImages) = run.imagesIn =>
                     Get(run.imageDuration).num * (N - k)
                       = Get(audio).duration * Get(run.imageDuration).den)
         /\ (Failed /\ ~run.spawned /\ run.error # AudioWriteError) => run.imagesIn > 0

C11_SessionDirRemoved ==
  compile # None => Get(compile).sessionDirRemoved

\* the first position of event e in a run's log, 0 when absent
IndexOf(log, e) ==
  IF e \in Range(log) THEN CHOOSE i \in 1..Len(log) :
                              log[i] = e /\ \A j \in 1..(i - 1) : log[j] # e
  ELSE 0

TerminalWritesAfterSettle(log) ==
  {i \in 1..Len(log) : i > IndexOf(log, "settle") /\ log[i] \in {"w:completed", "w:failed"}}

\* C12: in a background run videoStatus 'generating' has been written before
\* the orchestrator is invoked, no terminal status is written before the
\* orchestrator settles, and a finished run has made exactly one terminal
\* write after it: 'completed', or 'failed' with videoError set to the
\* failure message.
C12_StatusWrites ==
  \A r \in 1..Len(runs) :
    LET log == runs[r].log
        run == runs[r]
    IN /\ "invoke" \in Range(log) =>
             /\ IndexOf(log, "w:generating") > 0
             /\ IndexOf(log, "w:generating") < IndexOf(log, "invoke")
       /\ ("invoke" \in Range(log) /\ "settle" \notin Range(log)) =>
             Range(log) \cap {"w:completed", "w:failed"} = {}
       /\ (run.pc \in RunOver /\ "settle" \in Range(log)) =>
             /\ Cardinality(TerminalWritesAfterSettle(log)) = 1
             /\ run.written # None
             /\ Get(run.written).videoStatus \in TerminalStatuses
             /\ (Get(run.written).videoStatus = "failed" =>
                   /\ run.error # <<>>
                   /\ Get(run.written).videoError = run.error)

\* C13: a book for which a background run was started is never left for
\* ever with videoStatus 'pending' or 'generating'.
C13_EventuallyTerminal ==
  []<>(book = None \/ Get(book).videoStatus \notin {"pending", "generating"})

\* C14: at most one generation run is in flight for the book at any time.
C14_OneRunInFlight == Cardinality(InFlight) <= 1

TextReturned == textCall # None /\ Get(textCall).pc = "returned"

\* C15: generateText never throws; with the primary provider configured and
\* answering a text it returns that text, when the primary errors or is
\* absent it returns what the configured secondary provider answers, and it
\* returns the empty string when both fail or none is configured.
C15_GenerateTextNeverThrows ==
  textCall # None =>
    LET call == Get(textCall)
        primaryFailed == ~config.openrouterKey
                           \/ (call.primary # None /\ Get(call.primary).kind = "error")
        secondaryFailed == ~config.geminiKey
                             \/ (call.secondary # None /\ Get(call.secondary).kind = "error")
    IN /\ ~call.threw
       /\ call.pc \in {"primary", "secondary", "returned"}
       /\ (config.openrouterKey => call.primaryRequests = 1)
       /\ call.pc = "returned" =>
            /\ call.returned # None
            /\ (config.openrouterKey /\ TextOf(Get(call.primary)) # <<>> =>
                  Get(call.returned) = TextOf(Get(call.primary)))
            /\ (primaryFailed /\ config.geminiKey =>
                  /\ call.secondaryRequests = 1
                  /\ Get(call.returned) = TextOf(Get(call.secondary)))
            /\ (primaryFailed /\ secondaryFailed => Get(call.returned) = <<>>)
            /\ Get(call.returned) =
                 GenerateText(config,
                              IF call.primary = None
                              THEN [kind |-> "error", content |-> EmptyReply]
                              ELSE Get(call.primary),
                              IF call.secondary = None
                              THEN [kind |-> "error", content |-> EmptyReply]
                              ELSE Get(call.secondary)).reply.text

C15_Witness ==
  /\ TextReturned
  /\ Get(textCall).primary # None /\ Get(Get(textCall).primary).kind = "error"
  /\ Get(textCall).secondary # None /\ Get(Get(textCall).secondary).kind = "error"
  /\ Get(textCall).returned = Some(<<>>)

\* C16: one generateText call sends at most one request to the primary and
\* at most one to the secondary provider, and the secondary is contacted
\* only after the primary failed, returned empty text or is not configured.
C16_SingleFallbackHop ==
  textCall # None =>
    LET call == Get(textCall)
    IN /\ call.primaryRequests <= 1
       /\ call.secondaryRequests <= 1
       /\ Len(call.trace) = call.primaryRequests + call.secondaryRequests
       /\ (~config.openrouterKey => call.primaryRequests = 0)
       /\ (~config.geminiKey => call.secondaryRequests = 0)
       /\ call.secondaryRequests = 1 =>
            /\ call.trace[Len(call.trace)] = "secondary"
            /\ \/ ~config.openrouterKey
               \/ /\ call.trace = <<"primary", "secondary">>
                  /\ call.primary # None
                  /\ TextOf(Get(call.primary)) = <<>>

C16_Witness ==
  /\ TextReturned
  /\ Get(textCall).trace = <<"primary", "secondary">>
  /\ Get(Get(textCall).primary).kind = "ok"
  /\ Get(textCall).returned # Some(<<>>)

ImagesReturned == imageCall # None /\ Get(imageCall).pc = "returned"

\* C17: the per-scene image requests are all issued before any of them
\* settles, and whatever the order in which they settle the returned array
\* holds the surviving images in scene order.
C17_SceneOrderPreserved ==
  (imageCall # None /\ Get(imageCall).scenePrompts # None) =>
    LET call == Get(imageCall)
        n == Get(call.scenePrompts)
    IN /\ \A i \in 1..n : call.primaryRequests[i] = 1
       /\ call.pc = "returned" =>
            LET out == Get(call.returned)
            IN /\ \A a, b \in 1..Len(out) : a < b => out[a].scene < out[b].scene
               /\ \A a \in 1..Len(out) : out[a].kind = "generated"
               /\ {out[a].scene : a \in 1..Len(out)}
                    = {i \in 1..n : call.primary[i] = "image"
                                      \/ (call.fallbackRequests[i] = 1
                                            /\ call.slots[i].kind = "generated")}
               /\ Len(call.arrival) = n

C17_Witness ==
  /\ ImagesReturned
  /\ Len(Get(Get(imageCall).returned)) >= 3
  /\ Get(imageCall).arrival # <<>>
  /\ Get(imageCall).arrival[1] = 4
  /\ Get(imageCall).arrival[Len(Get(imageCall).arrival)] = 1

\* C18: without the primary image provider key generateImagesFromSummary
\* returns exactly the requested number of placeholder references and calls
\* neither the LLM client nor an image provider.
C18_PlaceholdersWithoutKey ==
  (ImagesReturned /\ ~config.openrouterKey) =>
    LET call == Get(imageCall)
        out == Get(call.returned)
    IN /\ Len(out) = call.requested
       /\ \A a \in 1..Len(out) : out[a].kind = "placeholder"
       /\ call.llmRequests = 0
       /\ call.scenePrompts = None
       /\ call.primaryRequests = <<>> /\ call.fallbackRequests = <<>>

\* C19: for each scene, when the primary image request fails (provider
\* error or a response in which no image is found) exactly one fallback
\* request is made for that scene; when it succeeds none is made; a scene
\* whose fallback fails too yields null and is not in the result.
C19_OneFallbackPerFailedScene ==
  (imageCall # None /\ Get(imageCall).scenePrompts # None) =>
    LET call == Get(imageCall)
    IN \A i \in 1..Get(call.scenePrompts) :
         /\ call.fallbackRequests[i] <= 1
         /\ (call.primary[i] \in {"error", "unparsable"} => call.fallbackRequests[i] = 1)
         /\ (call.primary[i] \in {"none", "image"} => call.fallbackRequests[i] = 0)
         /\ (call.stage[i] = "settled" /\ call.slots[i].kind = "null") =>
              /\ call.fallbackRequests[i] = 1
              /\ (call.pc = "returned" =>
                    \A a \in 1..Len(Get(call.returned)) : Get(call.returned)[a].scene # i)

\* C20: whatever the LLM answers (a valid array of any length, malformed
\* text, empty text, an error) generateScenePrompts yields exactly as many
\* scene descriptions as it was asked for.
C20_SceneCountEqualsRequested ==
  (imageCall # None /\ Get(imageCall).scenePrompts # None) =>
    Get(Get(imageCall).scenePrompts) = Get(imageCall).scenesAsked

\* C21: the estimate of the spoken duration is ceil(wordCount / 2.5) seconds
\* for the number of words of the narration (its maximal runs of characters
\* that are not whitespace), so it never decreases when the word count grows,
\* and it is 12 for a narration of 30 words.
C21_SpeakingDuration ==
  LET WordCount(s) ==
        Cardinality({i \in 1..Len(s) :
                       ~IsSpace(s[i].c) /\ (i = 1 \/ IsSpace(s[i - 1].c))})
  IN \A i \in 1..Len(estimates) :
       LET w == WordCount(estimates[i].text)
           d == estimates[i].duration
       IN /\ 5 * d >= 2 * w
          /\ 5 * (d - 1) < 2 * w
          /\ w = 30 => d = 12
          /\ \A j \in 1..Len(estimates) :
               WordCount(estimates[j].text) <= w => estimates[j].duration <= d

\* C22: when the book record says videoStatus 'completed', the recorded
\* videoUrl refers to a video that exists: a local /videos/ URL to a file
\* still in the output directory, a durable URL to an asset an upload stored.
\* The local file of a run is gone only after that run's upload succeeded;
\* a run without durable storage or with a failed upload keeps its file and
\* records the local URL.
C22_CompletedVideoExists ==
  /\ (book # None /\ Get(book).videoStatus = "completed") =>
       /\ Get(book).videoUrl # None
       /\ LET u == Get(Get(book).videoUrl)
          IN /\ u.kind = "local" => u.run \in files
             /\ u.kind = "cloud" => \E q \in 1..Len(runs) : runs[q].publicId # None
  /\ \A r \in 1..Len(runs) :
       /\ (runs[r].videoUrl # None /\ r \notin files) =>
            /\ runs[r].publicId # None
            /\ Get(runs[r].videoUrl) = CloudUrl(r)
       /\ (runs[r].videoUrl # None /\ runs[r].publicId = None) =>
            /\ Get(runs[r].videoUrl) = LocalUrl(r)
            /\ r \in files

\* a run whose upload failed completed with its local URL and kept its file
C22_Witness ==
  /\ cloudinary
  /\ book # None
  /\ Get(book).videoStatus = "completed"
  /\ \E r \in 1..Len(runs) :
       /\ Get(book).videoUrl = Some(LocalUrl(r))
       /\ runs[r].pc = "done"
       /\ r \in files
  /\ \E q \in 1..Len(runs) : runs[q].publicId # None /\ q \notin files

C30_TerminalMeansIdle ==
  /\ [](book # None /\ Get(book).videoStatus \in TerminalStatuses => InFlight = {})
  /\ [][(book # None /\ Get(book).videoStatus \in TerminalStatuses)
          => Get(book').videoStatus # "generating"]_vars

C24_NoImagesNoSpawn ==
  (compile # None /\ Get(compile).downloaded = {}) =>
    /\ ~Get(compile).ok
    /\ Get(compile).error =
         (IF Get(compile).mode = "effects" THEN NoImagesEffectsMsg ELSE NoImagesPlainMsg)
    /\ ~Get(compile).spawned
    /\ Get(compile).exit = "none"
    /\ Get(compile).outputFile = "absent"
    /\ Get(compile).duration = None

\* all of two or more urls failed to download
C24_Witness ==
  /\ compile # None
  /\ Get(compile).imagesIn >= 2
  /\ Get(compile).downloaded = {}
  /\ ~Get(compile).ok
  /\ ~Get(compile).spawned

\* C25: when the FFmpeg process exits with a non-zero code the compilation
\* fails, in plain and in effects mode, and the error handed to the caller
\* carries the tail of the process's stderr stream.
C25_ExitErrorCarriesStderr ==
  (compile # None /\ Get(compile).exit = "nonZero") =>
    /\ ~Get(compile).ok
    /\ ContainsWords(Get(compile).error, <<"stderr-tail">>)

\* C26: for a summary longer than 300 characters the scripting step never
\* fails the run.  When the LLM call throws or returns an empty or
\* whitespace-only text the narration is the fallback built from the title
\* and the first 250 characters of the original summary (title, ". ", the
\* 250 characters, "..."); otherwise it is the trimmed LLM text.
C26_LongSummaryNarration ==
  [][\A p \in ProviderOutcomes(NarrationReplies), s \in ProviderOutcomes(NarrationReplies) :
       ("scripting" \in pending /\ StrLen(Params(Get(request)).summary) > 300
          /\ ScriptingSettles(p, s)) =>
         LET prm == Params(Get(request))
             text == GenerateText(config, p, s).reply.text
             fallback == Concat(Concat(Concat(prm.title, DotSpace),
                                       Substring0(RawSummary, 250)), Str(".", 3))
         IN /\ narration' = Some(IF Trim(text) = <<>> THEN fallback ELSE Trim(text))
            /\ Get(narration') # <<>>
            /\ failedStage' = None
            /\ result' = None
            /\ ~escaped'
            /\ "voicing" \in pending' \/ "imaging" \in pending']_vars

\* both providers were asked for the narration of a long summary, neither
\* gave a usable text, and the run went on with the fallback narration
C26_Witness ==
  /\ narration # None
  /\ StrLen(RawSummary) > 300
  /\ calls["llmPrimary"] >= 1
  /\ calls["llmSecondary"] >= 1
  /\ Get(narration) = FallbackNarration(Params(Get(request)).title, RawSummary)
  /\ StrLen(Get(narration)) < StrLen(RawSummary)
  /\ failedStage = None
  /\ "imaging" \in Range(stageLog)

\* C29: in a successful run metadata.imageCount is the number of images
\* encoded into the video, which is the number of downloaded images the
\* compiler divided the audio duration by, also when some image references
\* failed to download.
C29_ImageCountIsEncodedCount ==
  Succeeded =>
    /\ Get(result).metadata.imageCount = Len(Get(compile).localImages)
    /\ Times(Get(result).metadata.imageCount, Get(Get(compile).imageDuration))
         = Get(result).duration

\* C27: every outbound network call of a pipeline run carries a bounded
\* timeout, so the awaited call settles even if the provider never
\* responds: a call of generateText, which the scripting and the imaging
\* stage await, always returns.
C27_CallSettles == (textCall # None) ~> TextReturned

====
